---------------------------- MODULE Spec2Model ----------------------------
(***************************************************************************)
(* Model of the electronic-invoice authorization service:                  *)
(*   src/src/lib/afip.ts      AFIPService (sendInvoice, numbering)          *)
(*   src/unnamed/part_000     the /api/factura route (POST, GET)            *)
(*   src/src/types/invoice.ts the data types                                *)
(*   src/src/app/page.tsx     the page: its form and its submit handler     *)
(*                                                                         *)
(* Representation.                                                         *)
(*  - An amount of money is held as the decimal the JSON or the form       *)
(*    carries, in thousandths of a currency unit (1.00 is 1000).  Where    *)
(*    the code computes with it, it is the double that decimal parses to,  *)
(*    and products, sums, differences, comparisons and toFixed(2) are      *)
(*    those of IEEE 754 doubles, computed exactly (section Numbers).       *)
(*  - alicuotaIVA is in tenths of a percent (21% is 210, 10.5% is 105).    *)
(*  - cantidad is a whole number of units.                                 *)
(*  - A calendar date 'YYYY-MM-DD' is the number of its day; an instant    *)
(*    is a number of hours, so the date of instant t is t \div 24.  A      *)
(*    negative fecha stands for a string that is not of that format.       *)
(*  - An optional value is a sequence of length 0 (absent) or 1.           *)
(*  - A JavaScript object is a record holding exactly the properties the   *)
(*    code sets: an optional property is present iff it is in DOMAIN.      *)
(*  - A request handler is a process; every await of the code is a step    *)
(*    boundary, so two requests interleave exactly where the code yields.  *)
(***************************************************************************)
EXTENDS Integers, Sequences, FiniteSets

VARIABLES
  pc,               \* per request: position in the handler
  op,               \* per request: "send" (direct sendInvoice), "post", "get"
  inv,              \* per request: the invoice (request body), optional
  xmlRequest,       \* per request: const xmlRequest   (afip.ts:129), optional
  signedXML,        \* per request: const signedXML    (afip.ts:132), optional
  simulatedCAE,     \* per request: const simulatedCAE (afip.ts:136), optional
  fechaVencimiento, \* per request: const fechaVencimiento (afip.ts:137), optional
  qrCode,           \* per request: const qrCode       (afip.ts:140), optional
  caught,           \* per request: the error logged by console.error (afip.ts:152)
  result,           \* per request: the AFIPResponse sendInvoice returned, optional
  tipoQuery,        \* per request: GET's const tipoComprobante (part_000:133), optional
  proximoNumero,    \* per request: the number GET's call drew (part_000:136), optional
  http,             \* per request: the HTTP response of the route, optional
  now,              \* the clock read by new Date(), in hours
  config,           \* AFIPService.config, read from the environment at start
  form,             \* the page: the values of the invoice form
  response,         \* the page: useState response (page.tsx:51), optional
  nextNumber,       \* the page: useState nextNumber (page.tsx:52)
  pageReq,          \* the page: the POST onSubmit is waiting for (page.tsx:144), optional
  pageGet           \* the page: the GET fetchNextNumber is waiting for (page.tsx:90), optional

vars == << pc, op, inv, xmlRequest, signedXML, simulatedCAE, fechaVencimiento,
           qrCode, caught, result, tipoQuery, proximoNumero, http, now,
           config, form, response, nextNumber, pageReq, pageGet >>

\* The state of the page
pageVars == << form, response, nextNumber, pageReq, pageGet >>

----------------------------------------------------------------------------
(* Bounds of the model *)

MaxItems == 2
MaxCAE == 1
MaxNumero == 2
MaxTicks == 2

(* Program constants *)

Tolerance == 10
ValidityDays == 10
HoursPerDay == 24
DefaultPuntoVenta == 1
CentUnit == 10
Percent == 100

Procs == {1, 2}
Solo == {1}

None == << >>
Some(x) == << x >>

ConfigCuit == "20111111112"

----------------------------------------------------------------------------
(* Numbers *)

\* A JavaScript Number is an IEEE 754 double: an integer significand of at
\* most 53 bits times a power of two.  The model computes with it exactly:
\* a natural number of any size is the sequence of its digits in base 2^15,
\* lowest first and with no leading zero, and a non-negative double is a
\* record [m, e] that stands for m * 2^e.  The amounts of an invoice are
\* never negative.

LimbBits == 15
LimbBase == 2 ^ LimbBits
Precision == 53

\* A whole number of limbs by which a dividend is scaled so that its
\* quotient by a small divisor has more than Precision + 1 bits
GuardLimbs == 5

RECURSIVE BigNorm(_)
BigNorm(a) ==
  IF a # << >> /\ a[Len(a)] = 0 THEN BigNorm(SubSeq(a, 1, Len(a) - 1)) ELSE a

RECURSIVE BigFromInt(_)
BigFromInt(n) ==
  IF n = 0 THEN << >> ELSE << n % LimbBase >> \o BigFromInt(n \div LimbBase)

RECURSIVE BigToInt(_)
BigToInt(a) ==
  IF a = << >> THEN 0 ELSE a[1] + LimbBase * BigToInt(Tail(a))

Limb(a, k) == IF k <= Len(a) THEN a[k] ELSE 0

RECURSIVE AddLimbs(_, _, _, _)
AddLimbs(a, b, k, carry) ==
  IF k > Len(a) /\ k > Len(b)
    THEN IF carry = 0 THEN << >> ELSE << carry >>
    ELSE LET s == Limb(a, k) + Limb(b, k) + carry
         IN  << s % LimbBase >> \o AddLimbs(a, b, k + 1, s \div LimbBase)

BigAdd(a, b) == AddLimbs(a, b, 1, 0)

\* a - b for a >= b
RECURSIVE SubLimbs(_, _, _, _)
SubLimbs(a, b, k, borrow) ==
  IF k > Len(a) THEN << >>
  ELSE LET s == a[k] - Limb(b, k) - borrow
       IN  IF s < 0
             THEN << s + LimbBase >> \o SubLimbs(a, b, k + 1, 1)
             ELSE << s >> \o SubLimbs(a, b, k + 1, 0)

BigSub(a, b) == BigNorm(SubLimbs(a, b, 1, 0))

\* -1, 0 or 1 as a is less than, equal to or greater than b
RECURSIVE CmpLimbs(_, _, _)
CmpLimbs(a, b, k) ==
  IF k = 0 THEN 0
  ELSE IF a[k] < b[k] THEN 0 - 1
  ELSE IF a[k] > b[k] THEN 1
  ELSE CmpLimbs(a, b, k - 1)

BigCmp(a, b) ==
  IF Len(a) < Len(b) THEN 0 - 1
  ELSE IF Len(a) > Len(b) THEN 1
  ELSE CmpLimbs(a, b, Len(a))

\* a * f for 0 <= f <= LimbBase
RECURSIVE MulLimbs(_, _, _, _)
MulLimbs(a, f, k, carry) ==
  IF k > Len(a) THEN BigFromInt(carry)
  ELSE LET s == a[k] * f + carry
       IN  << s % LimbBase >> \o MulLimbs(a, f, k + 1, s \div LimbBase)

BigMulSmall(a, f) == BigNorm(MulLimbs(a, f, 1, 0))

RECURSIVE MulFrom(_, _, _)
MulFrom(a, b, k) ==
  IF k > Len(b) THEN << >>
  ELSE BigAdd(MulLimbs(a, b[k], 1, 0), << 0 >> \o MulFrom(a, b, k + 1))

BigMul(a, b) == BigNorm(MulFrom(a, b, 1))

\* Quotient and remainder of a by d, for 0 < d <= LimbBase
RECURSIVE DivLimbs(_, _, _, _)
DivLimbs(a, d, k, rem) ==
  IF k = 0 THEN [ q |-> << >>, r |-> rem ]
  ELSE LET cur == rem * LimbBase + a[k]
           low == DivLimbs(a, d, k - 1, cur % d)
       IN  [ q |-> Append(low.q, cur \div d), r |-> low.r ]

BigDivSmall(a, d) ==
  LET qr == DivLimbs(a, d, Len(a), 0) IN [ q |-> BigNorm(qr.q), r |-> qr.r ]

Zeros(n) == [ k \in 1..n |-> 0 ]

\* a * 2^n and the whole part of a / 2^n
BigShl(a, n) ==
  IF a = << >> THEN << >>
  ELSE Zeros(n \div LimbBits) \o MulLimbs(a, 2 ^ (n % LimbBits), 1, 0)

BigShr(a, n) ==
  IF n \div LimbBits >= Len(a) THEN << >>
  ELSE BigDivSmall(SubSeq(a, n \div LimbBits + 1, Len(a)), 2 ^ (n % LimbBits)).q

RECURSIVE BitsOf(_)
BitsOf(n) == IF n = 0 THEN 0 ELSE 1 + BitsOf(n \div 2)

BitLength(a) ==
  IF a = << >> THEN 0 ELSE LimbBits * (Len(a) - 1) + BitsOf(a[Len(a)])

\* The double nearest to m * 2^e, or to a value just above it when sticky
\* (then m has more than Precision + 1 bits): round to nearest, ties to even.
RoundToDouble(m, e, sticky) ==
  LET sh == BitLength(m) - Precision IN
    IF sh <= 0 THEN [ m |-> m, e |-> e ]
    ELSE LET q == BigShr(m, sh)
             c == BigCmp(BigSub(m, BigShl(q, sh)), BigShl(<< 1 >>, sh - 1))
             up == c = 1 \/ ( c = 0 /\ ( sticky \/ q[1] % 2 = 1 ) )
         IN  [ m |-> IF up THEN BigAdd(q, << 1 >>) ELSE q, e |-> e + sh ]

\* The Number a decimal literal of value n / d denotes (n >= 0, 0 < d <= 1000)
FromDecimal(n, d) ==
  LET qr == BigDivSmall(Zeros(GuardLimbs) \o BigFromInt(n), d)
  IN  IF n = 0 THEN [ m |-> << >>, e |-> 0 ]
      ELSE RoundToDouble(qr.q, 0 - GuardLimbs * LimbBits, qr.r # 0)

\* The significands of x and y over their common (lower) exponent
Aligned(x, y) ==
  LET e == IF x.e < y.e THEN x.e ELSE y.e
  IN  [ x |-> BigShl(x.m, x.e - e), y |-> BigShl(y.m, y.e - e), e |-> e ]

\* x * y, x + y, |x - y| and x / k of doubles, each correctly rounded
NumMul(x, y) == RoundToDouble(BigMul(x.m, y.m), x.e + y.e, FALSE)

NumAdd(x, y) ==
  LET a == Aligned(x, y) IN RoundToDouble(BigAdd(a.x, a.y), a.e, FALSE)

NumAbsDiff(x, y) ==
  LET a == Aligned(x, y)
  IN  IF BigCmp(a.x, a.y) >= 0
        THEN RoundToDouble(BigSub(a.x, a.y), a.e, FALSE)
        ELSE RoundToDouble(BigSub(a.y, a.x), a.e, FALSE)

NumDivSmall(x, k) ==
  LET qr == BigDivSmall(Zeros(GuardLimbs) \o x.m, k)
  IN  IF x.m = << >> THEN x
      ELSE RoundToDouble(qr.q, x.e - GuardLimbs * LimbBits, qr.r # 0)

\* x > y
NumGt(x, y) == LET a == Aligned(x, y) IN BigCmp(a.x, a.y) = 1

\* The integer nearest to 100 x, the larger of the two when x lies half way
\* between: the digits x.toFixed(2) writes.
Cents(x) ==
  IF x.e >= 0 THEN BigToInt(BigShl(BigMulSmall(x.m, 100), x.e))
  ELSE BigToInt(BigShr(BigAdd(BigMulSmall(x.m, 200), BigShl(<< 1 >>, 0 - x.e)),
                       1 - x.e))

----------------------------------------------------------------------------
(* Pure functions *)

\* The names of the function-valued properties every object literal
\* inherits from Object.prototype
InheritedKeys ==
  { "constructor", "toString", "toLocaleString", "valueOf", "hasOwnProperty",
    "isPrototypeOf", "propertyIsEnumerable", "__defineGetter__",
    "__defineSetter__", "__lookupGetter__", "__lookupSetter__" }

\* The name of the inherited accessor whose value is the prototype object
ProtoKey == "__proto__"

\* Stand for values that are no number: a function, and the object
\* Object.prototype
NotACode == 0 - 1
ProtoObject == 0 - 2

\* tipos[tipo] || 1: the lookup finds the object's own three properties and
\* those it inherits, which are functions or an object: truthy, and so not
\* replaced by 1.
GetTipoComprobante(tipo) ==
  CASE tipo = "factura" -> 1
    [] tipo = "nota_credito" -> 2
    [] tipo = "nota_debito" -> 3
    [] tipo \in InheritedKeys -> NotACode
    [] tipo = ProtoKey -> ProtoObject
    [] OTHER -> 1

\* The Numbers the model's integers stand for: an amount n is n thousandths,
\* a rate r is r tenths (of a percent), a quantity is a whole number.
Amount(n) == FromDecimal(n, 100 * CentUnit)
Rate(r) == FromDecimal(r, 10)
Quantity(q) == FromDecimal(q, 1)

\* x.toFixed(2), read as an amount: the nearest whole cent to the double x,
\* in thousandths.
ToFixed2(x) == CentUnit * Cents(x)

\* item.cantidad * item.precioUnitario
LineBase(item) == NumMul(Quantity(item.cantidad), Amount(item.precioUnitario))

\* items.reduce((sum, item) => sum + (item.cantidad * item.precioUnitario), 0)
RECURSIVE SumBase(_)
SumBase(items) ==
  IF items = << >> THEN Quantity(0)
  ELSE NumAdd(SumBase(SubSeq(items, 1, Len(items) - 1)), LineBase(items[Len(items)]))

\* items.reduce((sum, item) => sum + item.importeIVA, 0)
RECURSIVE SumIVA(_)
SumIVA(items) ==
  IF items = << >> THEN Quantity(0)
  ELSE NumAdd(SumIVA(SubSeq(items, 1, Len(items) - 1)),
              Amount(items[Len(items)].importeIVA))

\* const calculatedSubtotal = ...
CalculatedSubtotal(i) == SumBase(i.items)

\* const calculatedIVA = ...
CalculatedIVA(i) == SumIVA(i.items)

\* subtotalItem * (item.alicuotaIVA / 100), for the subtotalItem of the line
IvaItem(subtotalItem, item) ==
  NumMul(subtotalItem, NumDivSmall(Rate(item.alicuotaIVA), Percent))

----------------------------------------------------------------------------
(* AFIPService *)

\* Incomplete with the check of the lines forgotten
IncompleteDocOnly(i) == i.cliente.numeroDocumento = ""

\* if (!invoiceData.cliente.numeroDocumento || !invoiceData.items.length)
Incomplete(i) == i.cliente.numeroDocumento = "" \/ Len(i.items) = 0

\* return { success: false, error: 'Datos incompletos: ...' }
IncompleteResult ==
  [ success |-> FALSE,
    error |-> << "Datos incompletos: se requiere CUIT del cliente e items" >> ]

\* error instanceof Error ? error.message : 'Error desconocido'
ErrorMessage(e) == IF e.isError THEN e.message ELSE "Error desconocido"

\* ErrorResult with the error property forgotten
ErrorResultBare(e) == [ success |-> FALSE ]

\* return { success: false, error: `Error al procesar la factura: ${...}` }
ErrorResult(e) ==
  [ success |-> FALSE,
    error |-> << "Error al procesar la factura: ", ErrorMessage(e) >> ]

\* Catch with the exception thrown on to the caller
Rethrow(e) == [ pc |-> "threw", result |-> None ]

\* The try/catch around the body of sendInvoice: an exception thrown by any
\* step is caught and turned into a returned result.
Catch(e) == [ pc |-> "done", result |-> Some(ErrorResult(e)) ]

\* generateXMLRequest with one aggregate tax entry for the whole invoice
GenerateXMLRequestAggregate(i) ==
  [ Token |-> "TOKEN_PLACEHOLDER",
    Sign |-> "SIGN_PLACEHOLDER",
    Cuit |-> ConfigCuit,
    CantReg |-> 1,
    PtoVta |-> DefaultPuntoVenta,
    CbteTipo |-> GetTipoComprobante(i.tipoComprobante),
    Concepto |-> 1,
    DocTipo |-> 80,
    DocNro |-> i.cliente.numeroDocumento,
    CbteDesde |-> i.numeroComprobante,
    CbteHasta |-> i.numeroComprobante,
    CbteFch |-> i.fecha,
    ImpTotal |-> ToFixed2(Amount(i.total)),
    ImpTotConc |-> 0,
    ImpNeto |-> ToFixed2(Amount(i.subtotal)),
    ImpOpEx |-> 0,
    ImpIVA |-> ToFixed2(Amount(i.totalIVA)),
    ImpTrib |-> 0,
    MonId |-> "PES",
    MonCotiz |-> 1,
    AlicIva |-> << [ Id |-> 5,
                     BaseImp |-> ToFixed2(SumBase(i.items)),
                     Importe |-> ToFixed2(SumIVA(i.items)) ] >> ]

\* The document generateXMLRequest builds, by element
GenerateXMLRequest(i) ==
  [ Token |-> "TOKEN_PLACEHOLDER",
    Sign |-> "SIGN_PLACEHOLDER",
    Cuit |-> ConfigCuit,
    CantReg |-> 1,
    PtoVta |-> DefaultPuntoVenta,
    CbteTipo |-> GetTipoComprobante(i.tipoComprobante),
    Concepto |-> 1,
    DocTipo |-> 80,
    DocNro |-> i.cliente.numeroDocumento,
    CbteDesde |-> i.numeroComprobante,
    CbteHasta |-> i.numeroComprobante,
    CbteFch |-> i.fecha,
    ImpTotal |-> ToFixed2(Amount(i.total)),
    ImpTotConc |-> 0,
    ImpNeto |-> ToFixed2(Amount(i.subtotal)),
    ImpOpEx |-> 0,
    ImpIVA |-> ToFixed2(Amount(i.totalIVA)),
    ImpTrib |-> 0,
    MonId |-> "PES",
    MonCotiz |-> 1,
    AlicIva |-> [ k \in 1..Len(i.items) |->
                    [ Id |-> 5,
                      BaseImp |-> ToFixed2(LineBase(i.items[k])),
                      Importe |-> ToFixed2(Amount(i.items[k].importeIVA)) ] ] ]

\* xml.replace('TOKEN_PLACEHOLDER', ...).replace('SIGN_PLACEHOLDER', ...)
SignXML(xml) ==
  [ xml EXCEPT !.Token = IF @ = "TOKEN_PLACEHOLDER" THEN "SIMULATED_TOKEN" ELSE @,
               !.Sign = IF @ = "SIGN_PLACEHOLDER" THEN "SIMULATED_SIGNATURE" ELSE @ ]

\* const qrData = { ... }
QRData(i, cae) ==
  [ ver |-> 1,
    fecha |-> i.fecha,
    cuit |-> ConfigCuit,
    ptoVta |-> DefaultPuntoVenta,
    tipoCmp |-> GetTipoComprobante(i.tipoComprobante),
    nroCmp |-> i.numeroComprobante,
    importe |-> i.total,
    moneda |-> "PES",
    ctz |-> 1,
    tipoDocRec |-> 80,
    nroDocRec |-> i.cliente.numeroDocumento,
    tipoCodAut |-> "E",
    codAut |-> cae ]

\* JSON.stringify(qrData): a property whose value is a function is left out
\* (one whose value is an object is kept)
Stringify(d) ==
  [ f \in { g \in DOMAIN d : g # "tipoCmp" \/ d.tipoCmp # NotACode } |-> d[f] ]

\* QRCode.toDataURL(JSON.stringify(qrData))
GenerateQRCode(i, cae) == [ dataURL |-> Stringify(QRData(i, cae)) ]

\* Math.floor(Math.random() * 99999999999999), padded to 14 digits: any code
\* of the range; the model draws from 0..MaxCAE.
CAEs == 0..MaxCAE

\* The hours by which the instant "same local time, ten local days later"
\* differs from now + 240 h: the change of the zone's offset from UTC in
\* between, which is nothing, an hour or two of daylight saving, or as much
\* as a day either way where a zone moves across the date line.
DstShifts == (0 - HoursPerDay)..HoursPerDay

\* const fecha = new Date(); fecha.setDate(fecha.getDate() + 10);
\* return fecha.toISOString().split('T')[0]
GetFechaVencimientoCAE(t, shift) ==
  (t + ValidityDays * HoursPerDay + shift) \div HoursPerDay

\* The object sendInvoice returns on the simulated acceptance
SuccessResult(i, cae, venc, qr) ==
  [ success |-> TRUE,
    cae |-> cae,
    fechaVencimientoCae |-> venc,
    numeroComprobante |-> i.numeroComprobante,
    qrCode |-> qr,
    observaciones |-> << "Comprobante autorizado correctamente" >> ]

\* Math.floor(Math.random() * 1000) + 1: the code draws from 1..1000, the
\* model from 1..MaxNumero.
GetNextInvoiceNumber(tipo) == 1..MaxNumero

\* What a step inside the try block may throw: nothing, an Error, or a value
\* that is not an Error.
Throwables ==
  { None,
    Some([ isError |-> TRUE, message |-> "fallo" ]),
    Some([ isError |-> FALSE, message |-> "" ]) }

----------------------------------------------------------------------------
(* The /api/factura route *)

ItemSchemaOK(item) ==
  /\ item.cantidad > 0
  /\ item.precioUnitario > 0
  /\ item.alicuotaIVA >= 0
  /\ item.alicuotaIVA <= 100 * 10
  /\ item.importeIVA >= 0
  /\ item.importeTotal > 0

\* InvoiceSchema.safeParse(body).success
SchemaOK(i) ==
  /\ i.tipoComprobante \in {"factura", "nota_credito", "nota_debito"}
  /\ i.puntoVenta > 0
  /\ i.numeroComprobante > 0
  /\ i.fecha >= 0
  /\ i.cliente.numeroDocumento # ""
  /\ Len(i.items) >= 1
  /\ \A k \in 1..Len(i.items) : ItemSchemaOK(i.items[k])
  /\ i.subtotal > 0
  /\ i.totalIVA >= 0
  /\ i.total > 0

\* Math.abs(calculatedSubtotal - invoiceData.subtotal) > 0.01
SubtotalMismatch(i) ==
  NumGt(NumAbsDiff(CalculatedSubtotal(i), Amount(i.subtotal)), Amount(Tolerance))

\* IVAMismatch with Math.abs forgotten
IVAMismatchSigned(i) ==
  /\ NumGt(CalculatedIVA(i), Amount(i.totalIVA))
  /\ NumGt(NumAbsDiff(CalculatedIVA(i), Amount(i.totalIVA)), Amount(Tolerance))

\* Math.abs(calculatedIVA - invoiceData.totalIVA) > 0.01
IVAMismatch(i) ==
  NumGt(NumAbsDiff(CalculatedIVA(i), Amount(i.totalIVA)), Amount(Tolerance))

\* The decimal numerals of the positions of an array
IndexName == << "0", "1", "2", "3", "4", "5", "6", "7", "8", "9" >>

\* One issue of validationResult.error.errors, as POST reports it: the path
\* of the field, its parts to be joined with '.', and the message.
Issue(path, message) == [ field |-> path, message |-> message ]

\* The issue a failed check gives, or none
Check(ok, path, message) == IF ok THEN << >> ELSE << Issue(path, message) >>

TooSmall == << "Number must be greater than 0" >>
Negative == << "Number must be greater than or equal to 0" >>
TooBig == << "Number must be less than or equal to 100" >>

\* The issues of line k, in the order of InvoiceItemSchema
ItemIssues(item, k) ==
  LET at(f) == << "items", IndexName[k], f >>
  IN  Check(item.cantidad > 0, at("cantidad"),
            << "La cantidad debe ser mayor a 0" >>)
      \o Check(item.precioUnitario > 0, at("precioUnitario"),
               << "El precio unitario debe ser mayor a 0" >>)
      \o Check(item.alicuotaIVA >= 0, at("alicuotaIVA"), Negative)
      \o Check(item.alicuotaIVA <= 100 * 10, at("alicuotaIVA"), TooBig)
      \o Check(item.importeIVA >= 0, at("importeIVA"), Negative)
      \o Check(item.importeTotal > 0, at("importeTotal"), TooSmall)

RECURSIVE ItemsIssues(_, _)
ItemsIssues(items, k) ==
  IF k > Len(items) THEN << >>
  ELSE ItemIssues(items[k], k) \o ItemsIssues(items, k + 1)

\* validationResult.error.errors.map(err => ({ field, message })): the
\* issues of the body in the order of InvoiceSchema
SchemaIssues(i) ==
  Check(i.tipoComprobante \in {"factura", "nota_credito", "nota_debito"},
        << "tipoComprobante" >>,
        << "Invalid enum value. Expected 'factura' | 'nota_credito' | 'nota_debito', received '",
           i.tipoComprobante, "'" >>)
  \o Check(i.puntoVenta > 0, << "puntoVenta" >>, TooSmall)
  \o Check(i.numeroComprobante > 0, << "numeroComprobante" >>, TooSmall)
  \o Check(i.fecha >= 0, << "fecha" >>,
           << "Formato de fecha inválido (YYYY-MM-DD)" >>)
  \o Check(i.cliente.numeroDocumento # "", << "cliente", "numeroDocumento" >>,
           << "El número de documento es requerido" >>)
  \o Check(Len(i.items) >= 1, << "items" >>, << "Se requiere al menos un item" >>)
  \o ItemsIssues(i.items, 1)
  \o Check(i.subtotal > 0, << "subtotal" >>, TooSmall)
  \o Check(i.totalIVA >= 0, << "totalIVA" >>, Negative)
  \o Check(i.total > 0, << "total" >>, TooSmall)

\* The 400 response to a body that fails the schema
InvalidData(i) ==
  [ status |-> 400,
    body |-> [ success |-> FALSE,
               error |-> << "Datos de factura inválidos" >>,
               details |-> SchemaIssues(i) ] ]

\* The 400 response to a body whose totals disagree with its lines
BadRequest(msg) ==
  [ status |-> 400, body |-> [ success |-> FALSE, error |-> << msg >> ] ]

\* The outer catch of POST
InternalError ==
  [ status |-> 500,
    body |-> [ success |-> FALSE, error |-> << "Error interno del servidor" >> ] ]

\* The checks POST makes before it calls sendInvoice: the response that
\* rejects the body, or None when the body goes on to sendInvoice.
PostValidation(i) ==
  IF ~SchemaOK(i) THEN Some(InvalidData(i))
  ELSE IF SubtotalMismatch(i)
    THEN Some(BadRequest("El subtotal calculado no coincide con el enviado"))
  ELSE IF IVAMismatch(i)
    THEN Some(BadRequest("El total de IVA calculado no coincide con el enviado"))
  ELSE None

DataFields ==
  {"cae", "fechaVencimientoCae", "numeroComprobante", "qrCode", "observaciones"}

\* A text, held as the sequence of its parts, is the empty string
EmptyText(t) == \A k \in 1..Len(t) : t[k] = ""

\* The response POST builds from what sendInvoice returned: an error that is
\* absent or empty is replaced by the default text; JSON carries only the
\* properties that are defined.
PostResponse(r) ==
  IF ~r.success
    THEN [ status |-> 500,
           body |-> [ success |-> FALSE,
                      error |-> IF "error" \in DOMAIN r /\ ~EmptyText(r.error)
                                  THEN r.error
                                  ELSE << "Error al procesar la factura en AFIP" >> ] ]
    ELSE [ status |-> 200,
           body |-> [ success |-> TRUE,
                      data |-> [ f \in DataFields \cap DOMAIN r |-> r[f] ] ] ]

\* The response of GET's catch
GetError ==
  [ status |-> 500,
    body |-> [ success |-> FALSE,
               error |-> << "Error al obtener información de numeración" >> ] ]

\* The response of GET
GetResponse(n) ==
  [ status |-> 200,
    body |-> [ success |-> TRUE,
               data |-> [ proximoNumero |-> n, puntoVenta |-> DefaultPuntoVenta ] ] ]

----------------------------------------------------------------------------
(* Configuration and the page's form *)

\* this.config: the sales point and the issuer's number are those of the
\* environment the model fixes; the certificate path and password are the
\* environment's, or '' when it sets none.
Configs ==
  { [ cuit |-> ConfigCuit, puntoVenta |-> DefaultPuntoVenta,
      certificatePath |-> path, certificatePassword |-> pw ] :
      path \in {"", "/certs/afip.p12"}, pw \in {"", "secreto"} }

\* The date of an instant: toISOString().split('T')[0]
DateOf(t) == t \div HoursPerDay

\* The line useForm's defaultValues and addItem give
DefaultItem ==
  [ cantidad |-> 1, precioUnitario |-> 0, alicuotaIVA |-> 210,
    importeIVA |-> 0, importeTotal |-> 0 ]

\* useForm's defaultValues, the page being opened at the first instant
DefaultForm ==
  [ tipoComprobante |-> "factura", puntoVenta |-> 1, numeroComprobante |-> 1,
    fecha |-> DateOf(HoursPerDay - 1),
    cliente |-> [ numeroDocumento |-> "" ],
    items |-> << DefaultItem >> ]

----------------------------------------------------------------------------
(* State machine *)

Init ==
  /\ pc = [ p \in Procs |-> "idle" ]
  /\ op = [ p \in Procs |-> "none" ]
  /\ inv = [ p \in Procs |-> None ]
  /\ xmlRequest = [ p \in Procs |-> None ]
  /\ signedXML = [ p \in Procs |-> None ]
  /\ simulatedCAE = [ p \in Procs |-> None ]
  /\ fechaVencimiento = [ p \in Procs |-> None ]
  /\ qrCode = [ p \in Procs |-> None ]
  /\ caught = [ p \in Procs |-> None ]
  /\ result = [ p \in Procs |-> None ]
  /\ tipoQuery = [ p \in Procs |-> None ]
  /\ proximoNumero = [ p \in Procs |-> None ]
  /\ http = [ p \in Procs |-> None ]
  /\ now = HoursPerDay - 1
  /\ config \in Configs
  /\ form = DefaultForm
  /\ response = None
  /\ nextNumber = 1
  /\ pageReq = None
  /\ pageGet = Some([ handler |-> None ])

\* A caller invokes afipService.sendInvoice(i) directly.
CallSendInvoice(p, i) ==
  /\ pc[p] = "idle"
  /\ pc' = [ pc EXCEPT ![p] = "send" ]
  /\ op' = [ op EXCEPT ![p] = "send" ]
  /\ inv' = [ inv EXCEPT ![p] = Some(i) ]
  /\ UNCHANGED << xmlRequest, signedXML, simulatedCAE, fechaVencimiento, qrCode,
                  caught, result, tipoQuery, proximoNumero, http, now >>
  /\ UNCHANGED << config, pageVars >>

\* POST /api/factura up to its call of sendInvoice: request.json() (which
\* throws on a body that is not JSON), the schema, the totals.
PostHandler(p, parseable, i) ==
  /\ pc[p] = "idle"
  /\ op' = [ op EXCEPT ![p] = "post" ]
  /\ IF ~parseable
       THEN /\ inv' = inv
            /\ http' = [ http EXCEPT ![p] = Some(InternalError) ]
            /\ pc' = [ pc EXCEPT ![p] = "responded" ]
       ELSE /\ inv' = [ inv EXCEPT ![p] = Some(i) ]
            /\ http' = [ http EXCEPT ![p] = PostValidation(i) ]
            /\ pc' = [ pc EXCEPT ![p] =
                         IF http'[p] = None THEN "send" ELSE "responded" ]
  /\ UNCHANGED << xmlRequest, signedXML, simulatedCAE, fechaVencimiento, qrCode,
                  caught, result, tipoQuery, proximoNumero, now >>

\* POST /api/factura, requested by a client other than the page
Post(p, parseable, i) ==
  /\ PostHandler(p, parseable, i)
  /\ UNCHANGED << config, pageVars >>

\* An exception e thrown inside sendInvoice's try block by request p
Throw(p, e) ==
  /\ caught' = [ caught EXCEPT ![p] = Some(e) ]
  /\ pc' = [ pc EXCEPT ![p] = Catch(e).pc ]
  /\ result' = [ result EXCEPT ![p] = Catch(e).result ]

\* sendInvoice, to its first await: the required-data check and
\* generateXMLRequest.
SendBuild(p, thrown) ==
  /\ pc[p] = "send"
  /\ IF Incomplete(inv[p][1])
       THEN /\ pc' = [ pc EXCEPT ![p] = "done" ]
            /\ result' = [ result EXCEPT ![p] = Some(IncompleteResult) ]
            /\ UNCHANGED << xmlRequest, caught >>
       ELSE IF thrown # None
         THEN /\ Throw(p, thrown[1])
              /\ UNCHANGED xmlRequest
         ELSE /\ xmlRequest' =
                   [ xmlRequest EXCEPT ![p] = Some(GenerateXMLRequest(inv[p][1])) ]
              /\ pc' = [ pc EXCEPT ![p] = "sign" ]
              /\ UNCHANGED << result, caught >>
  /\ UNCHANGED << op, inv, signedXML, simulatedCAE, fechaVencimiento, qrCode,
                  tipoQuery, proximoNumero, http, now >>
  /\ UNCHANGED << config, pageVars >>

\* const signedXML = await this.signXML(xmlRequest)
Sign(p, thrown) ==
  /\ pc[p] = "sign"
  /\ IF thrown # None
       THEN /\ Throw(p, thrown[1])
            /\ UNCHANGED signedXML
       ELSE /\ signedXML' = [ signedXML EXCEPT ![p] = Some(SignXML(xmlRequest[p][1])) ]
            /\ pc' = [ pc EXCEPT ![p] = "authorize" ]
            /\ UNCHANGED << result, caught >>
  /\ UNCHANGED << op, inv, xmlRequest, simulatedCAE, fechaVencimiento, qrCode,
                  tipoQuery, proximoNumero, http, now >>
  /\ UNCHANGED << config, pageVars >>

\* The simulated acceptance: the code and its expiry date are drawn, and
\* generateQRCode is started.
Authorize(p, cae, shift, thrown) ==
  /\ pc[p] = "authorize"
  /\ IF thrown # None
       THEN /\ Throw(p, thrown[1])
            /\ UNCHANGED << simulatedCAE, fechaVencimiento >>
       ELSE /\ simulatedCAE' = [ simulatedCAE EXCEPT ![p] = Some(cae) ]
            /\ fechaVencimiento' =
                 [ fechaVencimiento EXCEPT ![p] = Some(GetFechaVencimientoCAE(now, shift)) ]
            /\ pc' = [ pc EXCEPT ![p] = "qr" ]
            /\ UNCHANGED << result, caught >>
  /\ UNCHANGED << op, inv, xmlRequest, signedXML, qrCode, tipoQuery,
                  proximoNumero, http, now >>
  /\ UNCHANGED << config, pageVars >>

\* QRCode.toDataURL resolves or rejects, and sendInvoice returns.
GenerateQR(p, thrown) ==
  /\ pc[p] = "qr"
  /\ IF thrown # None
       THEN /\ Throw(p, thrown[1])
            /\ UNCHANGED qrCode
       ELSE /\ qrCode' =
                 [ qrCode EXCEPT ![p] = Some(GenerateQRCode(inv[p][1], simulatedCAE[p][1])) ]
            /\ result' =
                 [ result EXCEPT ![p] =
                     Some(SuccessResult(inv[p][1], simulatedCAE[p][1],
                                        fechaVencimiento[p][1],
                                        GenerateQRCode(inv[p][1], simulatedCAE[p][1]))) ]
            /\ pc' = [ pc EXCEPT ![p] = "done" ]
            /\ UNCHANGED caught
  /\ UNCHANGED << op, inv, xmlRequest, signedXML, simulatedCAE, fechaVencimiento,
                  tipoQuery, proximoNumero, http, now >>
  /\ UNCHANGED << config, pageVars >>

\* POST after sendInvoice: its response, or the outer catch when
\* sendInvoice threw.
PostRespond(p) ==
  /\ op[p] = "post"
  /\ pc[p] \in {"done", "threw"}
  /\ http' = [ http EXCEPT ![p] =
                 IF pc[p] = "threw" THEN Some(InternalError)
                 ELSE Some(PostResponse(result[p][1])) ]
  /\ pc' = [ pc EXCEPT ![p] = "responded" ]
  /\ UNCHANGED << op, inv, xmlRequest, signedXML, simulatedCAE, fechaVencimiento,
                  qrCode, caught, result, tipoQuery, proximoNumero, now >>
  /\ UNCHANGED << config, pageVars >>

\* GET /api/factura?tipo=..., to its await: the URL is read (new URL throws
\* on one that does not parse, and the catch answers), the kind is the
\* query's or 'factura' when it is absent or empty, and the call of
\* getNextInvoiceNumber draws the number.
GetHandler(p, urlOK, tipo, n) ==
  /\ pc[p] = "idle"
  /\ op' = [ op EXCEPT ![p] = "get" ]
  /\ IF ~urlOK
       THEN /\ http' = [ http EXCEPT ![p] = Some(GetError) ]
            /\ pc' = [ pc EXCEPT ![p] = "responded" ]
            /\ UNCHANGED << tipoQuery, proximoNumero >>
       ELSE /\ tipoQuery' =
                 [ tipoQuery EXCEPT ![p] =
                     IF tipo = None \/ tipo = Some("") THEN Some("factura") ELSE tipo ]
            /\ n \in GetNextInvoiceNumber(tipoQuery'[p][1])
            /\ proximoNumero' = [ proximoNumero EXCEPT ![p] = Some(n) ]
            /\ pc' = [ pc EXCEPT ![p] = "numbered" ]
            /\ UNCHANGED http
  /\ UNCHANGED << inv, xmlRequest, signedXML, simulatedCAE, fechaVencimiento,
                  qrCode, caught, result, now >>

\* GET /api/factura, requested by a client other than the page
Get(p, urlOK, tipo, n) ==
  /\ GetHandler(p, urlOK, tipo, n)
  /\ UNCHANGED << config, pageVars >>

\* GET after its await: the response is built from the number drawn.
GetRespond(p) ==
  /\ op[p] = "get"
  /\ pc[p] = "numbered"
  /\ http' = [ http EXCEPT ![p] = Some(GetResponse(proximoNumero[p][1])) ]
  /\ pc' = [ pc EXCEPT ![p] = "responded" ]
  /\ UNCHANGED << op, inv, xmlRequest, signedXML, simulatedCAE, fechaVencimiento,
                  qrCode, caught, result, tipoQuery, proximoNumero, now >>
  /\ UNCHANGED << config, pageVars >>

\* The locals of request p go away.
Release(p) ==
  /\ pc' = [ pc EXCEPT ![p] = "idle" ]
  /\ op' = [ op EXCEPT ![p] = "none" ]
  /\ inv' = [ inv EXCEPT ![p] = None ]
  /\ xmlRequest' = [ xmlRequest EXCEPT ![p] = None ]
  /\ signedXML' = [ signedXML EXCEPT ![p] = None ]
  /\ simulatedCAE' = [ simulatedCAE EXCEPT ![p] = None ]
  /\ fechaVencimiento' = [ fechaVencimiento EXCEPT ![p] = None ]
  /\ qrCode' = [ qrCode EXCEPT ![p] = None ]
  /\ caught' = [ caught EXCEPT ![p] = None ]
  /\ result' = [ result EXCEPT ![p] = None ]
  /\ tipoQuery' = [ tipoQuery EXCEPT ![p] = None ]
  /\ proximoNumero' = [ proximoNumero EXCEPT ![p] = None ]
  /\ http' = [ http EXCEPT ![p] = None ]

\* The page is waiting for the answer of request p
PageAwaits(p) ==
  \/ pageReq # None /\ pageReq[1].handler = Some(p)
  \/ pageGet # None /\ pageGet[1].handler = Some(p)

\* A caller that is not the page, or is the page no longer, has its answer.
Return(p) ==
  /\ ~PageAwaits(p)
  /\ \/ pc[p] = "responded"
     \/ op[p] = "send" /\ pc[p] \in {"done", "threw"}
  /\ Release(p)
  /\ UNCHANGED << now, config, pageVars >>

\* Time passes.
Tick ==
  /\ now < HoursPerDay - 1 + MaxTicks
  /\ now' = now + 1
  /\ UNCHANGED << pc, op, inv, xmlRequest, signedXML, simulatedCAE,
                  fechaVencimiento, qrCode, caught, result, tipoQuery,
                  proximoNumero, http >>
  /\ UNCHANGED << config, pageVars >>

----------------------------------------------------------------------------
(* The page *)

\* The body of the recalculation effect for one line:
\*   subtotalItem = cantidad * precioUnitario
\*   ivaItem = subtotalItem * (alicuotaIVA / 100)
\*   importeIVA = Number(ivaItem.toFixed(2))
\*   importeTotal = Number((subtotalItem + ivaItem).toFixed(2))
RecalculateItem(item) ==
  LET subtotalItem == LineBase(item)
      ivaItem == IvaItem(subtotalItem, item)
      totalItem == NumAdd(subtotalItem, ivaItem)
  IN  [ item EXCEPT !.importeIVA = ToFixed2(ivaItem),
                    !.importeTotal = ToFixed2(totalItem) ]

\* watchedItems.forEach(...)
Recalculate(items) == [ k \in 1..Len(items) |-> RecalculateItem(items[k]) ]

\* calculateTotals()
CalculateTotals(items) ==
  LET subtotal == SumBase(items)
      totalIVA == SumIVA(items)
      total == NumAdd(subtotal, totalIVA)
  IN  [ subtotal |-> ToFixed2(subtotal),
        totalIVA |-> ToFixed2(totalIVA),
        total |-> ToFixed2(total) ]

\* zodResolver(InvoiceFormSchema): what handleSubmit requires of the form
FormSchemaOK(f) ==
  /\ f.tipoComprobante \in {"factura", "nota_credito", "nota_debito"}
  /\ f.puntoVenta > 0
  /\ f.numeroComprobante > 0
  /\ f.fecha >= 0
  /\ f.cliente.numeroDocumento # ""
  /\ Len(f.items) >= 1
  /\ \A k \in 1..Len(f.items) : ItemSchemaOK(f.items[k])

\* const invoiceData = { ...data, ...totals }
FormInvoice(f) ==
  LET totals == CalculateTotals(f.items)
  IN  [ tipoComprobante |-> f.tipoComprobante, puntoVenta |-> f.puntoVenta,
        numeroComprobante |-> f.numeroComprobante, fecha |-> f.fecha,
        cliente |-> f.cliente, items |-> f.items,
        subtotal |-> totals.subtotal, totalIVA |-> totals.totalIVA,
        total |-> totals.total ]

\* The response the page stores when fetch fails
ConnectionError ==
  [ success |-> FALSE, error |-> << "Error de conexión al servidor" >> ]

\* The user sets quantity, unit price and rate of line k.  The registered
\* inputs and setValue write the fields into the form's array of lines in
\* place: form.watch('items') returns the same array, the effect that depends
\* on it does not run, and the derived fields of the lines stay as they were.
ChangeItem(k, q, price, rate) ==
  /\ k \in 1..Len(form.items)
  /\ form' = [ form EXCEPT !.items[k] =
                 [ @ EXCEPT !.cantidad = q, !.precioUnitario = price,
                            !.alicuotaIVA = rate ] ]
  /\ UNCHANGED << pc, op, inv, xmlRequest, signedXML, simulatedCAE,
                  fechaVencimiento, qrCode, caught, result, tipoQuery,
                  proximoNumero, http, now,
                  config, response, nextNumber, pageReq, pageGet >>

\* addItem: a default line is appended; the form has a new array of lines,
\* and the effect recomputes the derived fields of every line.
AddItem ==
  /\ form' = [ form EXCEPT !.items = Recalculate(Append(@, DefaultItem)) ]
  /\ UNCHANGED << pc, op, inv, xmlRequest, signedXML, simulatedCAE,
                  fechaVencimiento, qrCode, caught, result, tipoQuery,
                  proximoNumero, http, now,
                  config, response, nextNumber, pageReq, pageGet >>

\* remove(index), offered when the form has more than one line; the form has
\* a new array of lines, and the effect runs as after addItem.
RemoveItem(k) ==
  /\ Len(form.items) > 1
  /\ k \in 1..Len(form.items)
  /\ form' = [ form EXCEPT !.items =
                 Recalculate(SubSeq(@, 1, k - 1) \o SubSeq(@, k + 1, Len(@))) ]
  /\ UNCHANGED << pc, op, inv, xmlRequest, signedXML, simulatedCAE,
                  fechaVencimiento, qrCode, caught, result, tipoQuery,
                  proximoNumero, http, now,
                  config, response, nextNumber, pageReq, pageGet >>

\* The user types the recipient's document number.
SetCliente(doc) ==
  /\ form' = [ form EXCEPT !.cliente.numeroDocumento = doc ]
  /\ UNCHANGED << pc, op, inv, xmlRequest, signedXML, simulatedCAE,
                  fechaVencimiento, qrCode, caught, result, tipoQuery,
                  proximoNumero, http, now,
                  config, response, nextNumber, pageReq, pageGet >>

\* The user chooses the kind of document.
SetTipoComprobante(tipo) ==
  /\ form' = [ form EXCEPT !.tipoComprobante = tipo ]
  /\ UNCHANGED << pc, op, inv, xmlRequest, signedXML, simulatedCAE,
                  fechaVencimiento, qrCode, caught, result, tipoQuery,
                  proximoNumero, http, now,
                  config, response, nextNumber, pageReq, pageGet >>

\* The user sets the date (a date, or nothing: a negative number).
SetFecha(fecha) ==
  /\ form' = [ form EXCEPT !.fecha = fecha ]
  /\ UNCHANGED << pc, op, inv, xmlRequest, signedXML, simulatedCAE,
                  fechaVencimiento, qrCode, caught, result, tipoQuery,
                  proximoNumero, http, now,
                  config, response, nextNumber, pageReq, pageGet >>

\* What changes in none of the page's own steps
ServerVars ==
  << pc, op, inv, xmlRequest, signedXML, simulatedCAE, fechaVencimiento,
     qrCode, caught, result, tipoQuery, proximoNumero, http, now, config >>

\* The request of fetchNextNumber, sent when the page mounts, reaches the
\* route: GET starts, with no kind in the query.
NumberDeliver(p, n) ==
  /\ pageGet # None
  /\ pageGet[1].handler = None
  /\ GetHandler(p, TRUE, None, n)
  /\ pageGet' = Some([ handler |-> Some(p) ])
  /\ UNCHANGED << config, form, response, nextNumber, pageReq >>

\* fetchNextNumber after its awaits: when the answer says success, the
\* number and the sales point it carries are put in the state and the form.
NumberReceive(p) ==
  /\ pageGet # None
  /\ pageGet[1].handler = Some(p)
  /\ pc[p] = "responded"
  /\ IF http[p][1].body.success
       THEN /\ nextNumber' = http[p][1].body.data.proximoNumero
            /\ form' = [ form EXCEPT
                           !.numeroComprobante = http[p][1].body.data.proximoNumero,
                           !.puntoVenta = http[p][1].body.data.puntoVenta ]
       ELSE UNCHANGED << nextNumber, form >>
  /\ pageGet' = None
  /\ Release(p)
  /\ UNCHANGED << now, config, response, pageReq >>

\* fetchNextNumber's fetch fails, before or after the route was reached:
\* the catch logs it and nothing changes.
NumberDisconnect ==
  /\ pageGet # None
  /\ pageGet' = None
  /\ UNCHANGED << ServerVars, form, response, nextNumber, pageReq >>

\* handleSubmit(onSubmit), to the await of fetch: the form passes its
\* schema, the stored response is cleared, and the body is sent.  The submit
\* button is disabled while onSubmit runs (isLoading: pageReq is set); the
\* handler keeps the nextNumber of the render it was made in.
PageSubmit ==
  /\ pageReq = None
  /\ FormSchemaOK(form)
  /\ response' = None
  /\ pageReq' = Some([ body |-> FormInvoice(form), nextNumber |-> nextNumber,
                       handler |-> None ])
  /\ UNCHANGED << ServerVars, form, nextNumber, pageGet >>

\* The request of onSubmit reaches the route: POST starts.
PageDeliver(p) ==
  /\ pageReq # None
  /\ pageReq[1].handler = None
  /\ PostHandler(p, TRUE, pageReq[1].body)
  /\ pageReq' = Some([ pageReq[1] EXCEPT !.handler = Some(p) ])
  /\ UNCHANGED << config, form, response, nextNumber, pageGet >>

\* onSubmit after its awaits: the parsed body is stored as the response and,
\* when it says success, the number is advanced from the one the handler kept.
PageReceive(p) ==
  /\ pageReq # None
  /\ pageReq[1].handler = Some(p)
  /\ pc[p] = "responded"
  /\ response' = Some(http[p][1].body)
  /\ IF http[p][1].body.success
       THEN /\ form' = [ form EXCEPT !.numeroComprobante = pageReq[1].nextNumber + 1 ]
            /\ nextNumber' = pageReq[1].nextNumber + 1
       ELSE UNCHANGED << form, nextNumber >>
  /\ pageReq' = None
  /\ Release(p)
  /\ UNCHANGED << now, config, pageGet >>

\* onSubmit's fetch fails, before or after the route was reached: the catch
\* stores the connection error.
PageDisconnect ==
  /\ pageReq # None
  /\ response' = Some(ConnectionError)
  /\ pageReq' = None
  /\ UNCHANGED << ServerVars, form, nextNumber, pageGet >>

----------------------------------------------------------------------------
(* Inputs *)

MkItem(q, price, rate, iva) ==
  [ cantidad |-> q, precioUnitario |-> price, alicuotaIVA |-> rate,
    importeIVA |-> iva, importeTotal |-> q * price + iva ]

MkInvoice(tipo, pv, num, fecha, doc, items, subtotal, totalIVA, total) ==
  [ tipoComprobante |-> tipo, puntoVenta |-> pv, numeroComprobante |-> num,
    fecha |-> fecha, cliente |-> [ numeroDocumento |-> doc ], items |-> items,
    subtotal |-> subtotal, totalIVA |-> totalIVA, total |-> total ]

\* The sums of the lines' bases and taxes in exact decimal arithmetic
RECURSIVE DecimalBase(_)
DecimalBase(items) ==
  IF items = << >> THEN 0
  ELSE items[1].cantidad * items[1].precioUnitario + DecimalBase(Tail(items))

RECURSIVE DecimalIVA(_)
DecimalIVA(items) ==
  IF items = << >> THEN 0 ELSE items[1].importeIVA + DecimalIVA(Tail(items))

\* The spec's scenario line: quantity 2, unit price 100.00, rate 21%, tax 42.00
ScenarioItem == MkItem(2, 100000, 210, 42000)

\* An invoice whose amounts are those its lines give
Consistent(tipo, num, fecha, doc, items) ==
  MkInvoice(tipo, DefaultPuntoVenta, num, fecha, doc, items,
            DecimalBase(items), DecimalIVA(items),
            DecimalBase(items) + DecimalIVA(items))

KnownKinds == {"factura", "nota_credito", "nota_debito"}

\* Invoices of two kinds and of every number, well formed: the submissions
\* whose numbers and codes are compared.
LedgerInvoices ==
  { Consistent(t, n, 0, "20222222223", << ScenarioItem >>) :
      t \in {"factura", "nota_credito"}, n \in 1..MaxNumero }

\* Invoices of every kind, three unknown ones included (two of them names
\* of inherited properties), with and without a recipient number and
\* lines, dated today and tomorrow.
SendInvoices ==
  { Consistent(t, 1, f, d, its) :
      t \in KnownKinds \cup {"recibo", "toString", ProtoKey}, f \in {0, 1},
      d \in {"", "20222222223"}, its \in {<< >>, << ScenarioItem >>} }

\* Lines of quantity 1 or 2 at 100.00 and 21%, with a tax of 21.00 (the tax
\* the rate gives for quantity 1, half of it for quantity 2) or with none.
PostItems ==
  { MkItem(q, 100000, 210, iva) : q \in {1, 2}, iva \in {0, 21000} }

RECURSIVE SeqsUpTo(_, _)
SeqsUpTo(S, n) ==
  IF n = 0 THEN { << >> }
  ELSE SeqsUpTo(S, n - 1) \cup
       { Append(sq, x) : sq \in { t \in SeqsUpTo(S, n - 1) : Len(t) = n - 1 }, x \in S }

\* Bodies for POST: up to MaxItems lines, and amounts that are those the
\* lines give or are off by 0.01, by 0.011 or by 1.00.
PostInvoices ==
  { MkInvoice("factura", DefaultPuntoVenta, 1, 0, "20222222223", its,
              DecimalBase(its) + dS, DecimalIVA(its) + dI,
              DecimalBase(its) + dS + DecimalIVA(its) + dI + dT) :
      its \in SeqsUpTo(PostItems, MaxItems),
      dS \in {0 - 11, 0, 10, 11}, dI \in {0, 11}, dT \in {0, 1000} }

----------------------------------------------------------------------------
(* Specifications *)

\* The steps of sendInvoice and of the route after it, for request p, with
\* the exceptions of T thrown
Steps(p, T) ==
  \/ \E thrown \in T : SendBuild(p, thrown)
  \/ \E thrown \in T : Sign(p, thrown)
  \/ \E cae \in CAEs, shift \in DstShifts, thrown \in T :
       Authorize(p, cae, shift, thrown)
  \/ \E thrown \in T : GenerateQR(p, thrown)
  \/ PostRespond(p)
  \/ Return(p)

\* The kind a numbering request asks for: none, or one of two kinds
GetQueries == { None, Some("factura"), Some("nota_credito") }

\* Two concurrent requests: submissions of well-formed invoices, directly
\* and through POST, and numbering requests, none of whose steps throws.
Next ==
  \/ \E p \in Procs, i \in LedgerInvoices : CallSendInvoice(p, i)
  \/ \E p \in Procs, i \in LedgerInvoices : Post(p, TRUE, i)
  \/ \E p \in Procs, urlOK \in BOOLEAN, t \in GetQueries, n \in 1..MaxNumero :
       Get(p, urlOK, t, n)
  \/ \E p \in Procs : GetRespond(p)
  \/ \E p \in Procs : Steps(p, {None})
  \/ Tick

Spec == Init /\ [][Next]_vars

\* One request at a time, over every shape of invoice sendInvoice can be given
NextSend ==
  \/ \E p \in Solo, i \in SendInvoices : CallSendInvoice(p, i)
  \/ \E p \in Solo, parseable \in BOOLEAN, i \in SendInvoices : Post(p, parseable, i)
  \/ \E p \in Solo : Steps(p, Throwables)
  \/ Tick

SpecSend == Init /\ [][NextSend]_vars

\* One POST at a time, over bodies whose amounts agree or disagree with
\* their lines
NextPost ==
  \/ \E p \in Solo, parseable \in BOOLEAN, i \in PostInvoices : Post(p, parseable, i)
  \/ \E p \in Solo : Steps(p, Throwables)
  \/ Tick

SpecPost == Init /\ [][NextPost]_vars

\* The unit prices the form is given: 0.004 and 1.50
FormPrices == {4, 1500}

\* The rates the form's selector offers: 0, 10.5, 21 and 27 percent
FormRates == {0, 105, 210, 270}

\* The form alone: lines are added, edited and removed.
NextForm ==
  \/ \E k \in 1..MaxItems, q \in 1..2, price \in FormPrices, rate \in FormRates :
       ChangeItem(k, q, price, rate)
  \/ Len(form.items) < MaxItems /\ AddItem
  \/ \E k \in 1..MaxItems : RemoveItem(k)

SpecForm == Init /\ [][NextForm]_vars

\* The page end to end: the form is filled in and submitted, the route and
\* sendInvoice run, and the page stores the answer.
\* The page's two requests are served by two handlers, the POST by the first
\* and the GET by the second: which process serves which request does not
\* change what either does.
NextPage ==
  \/ ChangeItem(1, 1, 100000, 210)
  \/ Len(form.items) < MaxItems /\ AddItem
  \/ RemoveItem(2)
  \/ SetCliente("20222222223")
  \/ SetTipoComprobante("nota_credito")
  \/ SetFecha(1)
  \/ \E n \in 1..MaxNumero : NumberDeliver(2, n)
  \/ \E p \in Procs : GetRespond(p)
  \/ \E p \in Procs : NumberReceive(p)
  \/ NumberDisconnect
  \/ nextNumber <= MaxNumero /\ PageSubmit
  \/ PageDeliver(1)
  \/ \E p \in Procs : Steps(p, {None})
  \/ \E p \in Procs : PageReceive(p)
  \/ PageDisconnect

SpecPage == Init /\ [][NextPage]_vars

----------------------------------------------------------------------------
(* Claims *)

Abs(x) == IF x < 0 THEN 0 - x ELSE x

\* round2 of the data model: the whole cent nearest to n/d thousandths in
\* exact decimal arithmetic, halves upwards
HalfUp2(n, d) == CentUnit * ((2 * n + CentUnit * d) \div (2 * CentUnit * d))

Present(r, f) == f \in DOMAIN r

Authorized(p) == result[p] # None /\ result[p][1].success

\* The positions of a request inside sendInvoice or holding its result
InSendInvoice == {"send", "sign", "authorize", "qr", "done"}

SamePair(i, j) ==
  i.puntoVenta = j.puntoVenta /\ i.tipoComprobante = j.tipoComprobante

\* C1: every result sendInvoice returns has cae, fechaVencimientoCae and
\* qrCode present iff success is true, and error present iff success is false.
C1_ResultShape ==
  \A p \in Procs :
    result[p] # None =>
      LET r == result[p][1] IN
        /\ \A f \in {"cae", "fechaVencimientoCae", "qrCode"} : Present(r, f) <=> r.success
        /\ Present(r, "error") <=> ~r.success

\* A call has returned an authorized result, and carries the three fields.
C1_Witness ==
  \E p \in Procs :
    /\ pc[p] = "done" /\ Authorized(p)
    /\ Present(result[p][1], "qrCode") /\ ~Present(result[p][1], "error")

\* C2: no two numbering calls for the same document kind and sales point,
\* sequential or concurrent, return the same sequence number.
C2_NumbersDistinct ==
  \A p, q \in Procs :
    ( /\ p # q
      /\ op[p] = "get" /\ op[q] = "get"
      /\ pc[p] = "responded" /\ pc[q] = "responded"
      /\ http[p][1].status = 200 /\ http[q][1].status = 200
      /\ tipoQuery[p] = tipoQuery[q]
      /\ http[p][1].body.data.puntoVenta = http[q][1].body.data.puntoVenta )
    => http[p][1].body.data.proximoNumero # http[q][1].body.data.proximoNumero

\* C3: an invoice whose numeroComprobante is less than or equal to one
\* already authorized for the same (sales point, document kind) is never
\* authorized: each step that authorizes a submission does so with a number
\* above those of the authorized results that exist.
C3_AcceptedIncreasing ==
  [][ \A q \in Procs :
        ( ~Authorized(q) /\ Authorized(q)' ) =>
          \A p \in Procs \ {q} :
            ( Authorized(p) /\ SamePair(inv[p][1], inv[q][1]) ) =>
              inv[q][1].numeroComprobante > inv[p][1].numeroComprobante ]_vars

\* C4: two submissions of the same (sales point, document kind, sequence
\* number) get the same authorization code.
C4_SameCaeOnResubmission ==
  \A p, q \in Procs :
    ( /\ Authorized(p) /\ Authorized(q)
      /\ SamePair(inv[p][1], inv[q][1])
      /\ inv[p][1].numeroComprobante = inv[q][1].numeroComprobante )
    => result[p][1].cae = result[q][1].cae

\* C5: sendInvoice never raises to its caller: whatever a step of it throws,
\* the call returns a result with success false and an error.
C5_NeverRaises ==
  \A p \in Procs :
    /\ pc[p] # "threw"
    /\ caught[p] # None =>
         /\ result[p] # None
         /\ ~result[p][1].success
         /\ Present(result[p][1], "error")
         /\ Len(result[p][1].error) > 0

\* A step of sendInvoice has thrown and the call has returned.
C5_Witness ==
  \E p \in Procs :
    caught[p] # None /\ pc[p] = "done" /\ op[p] = "send" /\ xmlRequest[p] # None

\* C6: an invoice with no lines is rejected with an error outcome, and no
\* request is built or signed, no code generated and no image produced for it.
C6_EmptyLinesRejected ==
  \A p \in Procs :
    ( inv[p] # None /\ Len(inv[p][1].items) = 0 ) =>
      /\ pc[p] \notin {"sign", "authorize", "qr"}
      /\ xmlRequest[p] = None /\ signedXML[p] = None
      /\ simulatedCAE[p] = None /\ qrCode[p] = None
      /\ result[p] # None => ( ~result[p][1].success /\ Present(result[p][1], "error") )
      /\ http[p] # None => ( http[p][1].status >= 400 /\ ~http[p][1].body.success )

\* sendInvoice, called directly with an invoice that has a recipient number
\* and no lines, has returned.
C6_Witness ==
  \E p \in Procs :
    /\ op[p] = "send" /\ pc[p] = "done"
    /\ Len(inv[p][1].items) = 0 /\ inv[p][1].cliente.numeroDocumento # ""

\* C7: every invoice that reaches sendInvoice through POST has
\* total = subtotal + totalIVA within 0.01.
C7_TotalChecked ==
  \A p \in Procs :
    ( op[p] = "post" /\ pc[p] \in InSendInvoice ) =>
      Abs(inv[p][1].total - (inv[p][1].subtotal + inv[p][1].totalIVA)) <= Tolerance

\* C8: POST answers 400, without calling sendInvoice, to any invoice whose
\* subtotal differs by more than 0.01 from the sum of quantity * unit price
\* over its lines, or whose totalIVA differs by more than 0.01 from the sum
\* of the lines' importeIVA.
C8_MismatchRejected ==
  \A p \in Procs :
    ( /\ op[p] = "post" /\ inv[p] # None
      /\ LET i == inv[p][1]
             dS == DecimalBase(i.items) - i.subtotal
             dI == DecimalIVA(i.items) - i.totalIVA
         IN  dS > Tolerance \/ 0 - dS > Tolerance \/ dI > Tolerance \/ 0 - dI > Tolerance )
    => /\ pc[p] = "responded"
       /\ http[p][1].status = 400
       /\ result[p] = None /\ xmlRequest[p] = None

\* POST has answered 400 to a body that passes the schema and whose totalIVA
\* is 0.011 above the sum of its lines' tax.
C8_Witness ==
  \E p \in Procs :
    /\ op[p] = "post" /\ pc[p] = "responded" /\ inv[p] # None
    /\ SchemaOK(inv[p][1])
    /\ DecimalBase(inv[p][1].items) = inv[p][1].subtotal
    /\ inv[p][1].totalIVA - DecimalIVA(inv[p][1].items) > Tolerance
    /\ http[p][1].status = 400

\* C9: every line of every invoice POST passes on to sendInvoice has
\* importeIVA = round2(cantidad * precioUnitario * alicuotaIVA / 100).
C9_LineTaxValidated ==
  \A p \in Procs :
    ( op[p] = "post" /\ pc[p] \in InSendInvoice ) =>
      \A k \in 1..Len(inv[p][1].items) :
        LET item == inv[p][1].items[k] IN
          item.importeIVA =
            HalfUp2(item.cantidad * item.precioUnitario * item.alicuotaIVA, 10 * Percent)

\* C10: the expiry date of every authorized result is the invoice's issue
\* date plus 10 days.
C10_ExpiryFromIssueDate ==
  \A p \in Procs :
    Authorized(p) =>
      result[p][1].fechaVencimientoCae = inv[p][1].fecha + ValidityDays

\* C11: when the configured certificate path or password is empty, signing
\* fails: no signed request is produced and no authorized result returned.
C11_MissingCertificateFails ==
  ( config.certificatePath = "" \/ config.certificatePassword = "" ) =>
    \A p \in Procs : signedXML[p] = None /\ ~Authorized(p)

\* C12: whenever sendInvoice processes an invoice of a kind that is not one
\* of the three known ones and the default code 1 is therefore used, the
\* remarks of the result report the fallback: they hold an entry besides the
\* notice of authorization.
C12_FallbackRemarked ==
  \A p \in Procs :
    ( /\ Authorized(p)
      /\ inv[p][1].tipoComprobante \notin KnownKinds
      /\ xmlRequest[p][1].CbteTipo = 1 ) =>
      \E k \in 1..Len(result[p][1].observaciones) :
        result[p][1].observaciones[k] # "Comprobante autorizado correctamente"

\* C14 as stated: the request document built for any invoice contains
\* exactly one tax-breakdown (AlicIva) entry, whatever the number of lines.
C14_OneTaxEntry ==
  \A p \in Procs :
    xmlRequest[p] # None => Len(xmlRequest[p][1].AlicIva) = 1

\* C14 amended: the request document contains one AlicIva entry per line of
\* the invoice, as many entries as the invoice has lines, each with Id 5.
C14_OneTaxEntryPerLine ==
  \A p \in Procs :
    xmlRequest[p] # None =>
      LET entries == xmlRequest[p][1].AlicIva
      IN  /\ Len(entries) = Len(inv[p][1].items)
          /\ \A k \in 1..Len(entries) : entries[k].Id = 5

\* A request has been built for an invoice of two lines.
C14_Witness ==
  \E p \in Procs :
    /\ xmlRequest[p] # None
    /\ Len(inv[p][1].items) = 2
    /\ Len(xmlRequest[p][1].AlicIva) = 2

\* The code the claim gives a kind
ClaimedCode(tipo) ==
  IF tipo = "factura" THEN 1
  ELSE IF tipo = "nota_credito" THEN 2
  ELSE IF tipo = "nota_debito" THEN 3
  ELSE 1

\* C15: the document-type code in the request and in the verification
\* payload is 1 for 'factura', 2 for 'nota_credito', 3 for 'nota_debito' and
\* 1 for any other kind, and is the same in both places.
C15_DocumentTypeCode ==
  \A p \in Procs :
    /\ xmlRequest[p] # None =>
         xmlRequest[p][1].CbteTipo = ClaimedCode(inv[p][1].tipoComprobante)
    /\ qrCode[p] # None =>
         /\ Present(qrCode[p][1].dataURL, "tipoCmp")
         /\ qrCode[p][1].dataURL.tipoCmp = ClaimedCode(inv[p][1].tipoComprobante)
         /\ qrCode[p][1].dataURL.tipoCmp = xmlRequest[p][1].CbteTipo

\* The values round2 may take for n/d thousandths, x being the same amount as
\* the platform computes it: the cent nearest in exact decimal arithmetic,
\* halves upwards, or the platform's own rounding.
Round2s(n, d, x) == { HalfUp2(n, d), ToFixed2(x) }

\* The form's recalculation has run in this step: the form has a new array of
\* lines.
Recalculated == Len(form'.items) # Len(form.items)

\* C13: for every line of the form with positive quantity and unit price and
\* a rate of 0, 10.5, 21 or 27 percent, the fields the form's recalculation
\* computes satisfy importeIVA = round2(cantidad * precioUnitario *
\* alicuotaIVA / 100) and importeTotal = round2(cantidad * precioUnitario) +
\* importeIVA exactly, round2 being either of the roundings the data model
\* allows.
C13_LineFields ==
  [][ Recalculated =>
        \A k \in 1..Len(form'.items) :
          LET item == form'.items[k]
              base == item.cantidad * item.precioUnitario
          IN  ( item.cantidad > 0 /\ item.precioUnitario > 0
                /\ item.alicuotaIVA \in FormRates ) =>
                /\ item.importeIVA \in
                     Round2s(base * item.alicuotaIVA, 10 * Percent,
                             IvaItem(LineBase(item), item))
                /\ \E r \in Round2s(base, 1, LineBase(item)) :
                     item.importeTotal = r + item.importeIVA ]_vars

\* C16: whenever the response the page stores after a submission has
\* success = true, it carries the fields the page displays: cae and
\* fechaVencimientoCae are present in it.
C16_StoredResponseDisplayable ==
  ( response # None /\ response[1].success ) =>
    ( Present(response[1], "cae") /\ Present(response[1], "fechaVencimientoCae") )

====
